---- MODULE Spec2Model ----
(***************************************************************************)
(* Model of the data-store TCP server (src/unnamed/part_000, lines 28-186):*)
(* a line-oriented SQL-like record store that keeps every table in a JSON  *)
(* file data/<table>.txt.  Each 'data' event of a socket starts one run of *)
(* the async handler; a run is suspended at `await loadData(..)` and at    *)
(* `await saveData(..)`, and other runs (of the same or of another         *)
(* connection) execute in between.  fs.writeFile opens the file with flag  *)
(* 'w' (truncate) and then writes from offset 0; both steps happen in the  *)
(* thread pool and are separate steps here.                                *)
(* Two further services of the repository run as processes of their own    *)
(* and share nothing with the data store: the message queue                *)
(* (src/docker-compose.yml, lines 80-145) and the cache store              *)
(* (src/cache-store/src/server.ts).                                        *)
(***************************************************************************)
EXTENDS Integers, Sequences, FiniteSets, TLC

\* ------------------------------------------------------------------ bounds
MaxRequests == 3        \* statements received over the whole run
MaxFaults   == 1        \* file-system operations that fail over the whole run
LiveRequests == 2       \* statements received in a run checked for liveness
MaxEnqueues == 4        \* POST /enqueue requests over the whole run

Conns  == {"c1", "c2"}
Tables == {"spells", "items"}

\* ------------------------------------------------------- JavaScript values
Undefined == "<undefined>"

\* obj.key of a JavaScript object: undefined when the object has no such key.
Get(obj, key) == IF key \in DOMAIN obj THEN obj[key] ELSE Undefined

\* type Data = { id, name, description }
Data(id, name, description) ==
    [id |-> id, name |-> name, description |-> description]

\* JSON.stringify of one object: a key whose value is undefined is left out.
StringifyObj(obj) ==
    [k \in {f \in DOMAIN obj : f = "id" \/ obj[f] # Undefined} |-> obj[k]]

\* The text of a file or of a response is a sequence of tokens.
LBracket == [tok |-> "["]
RBracket == [tok |-> "]"]
ObjTok(o) == [tok |-> "{}", obj |-> o]

\* A stringify that leaves the last element out.
StringifyShort(data) ==
    <<LBracket>> \o [i \in 1..(Len(data) - 1) |-> ObjTok(StringifyObj(data[i]))] \o <<RBracket>>

\* JSON.stringify(data, null, 2) of an array of objects.
Stringify(data) ==
    <<LBracket>> \o [i \in 1..Len(data) |-> ObjTok(StringifyObj(data[i]))] \o <<RBracket>>

\* Does JSON.parse accept the text (as an array of objects)?
WellFormed(text) ==
    /\ Len(text) >= 2
    /\ text[1] = LBracket
    /\ text[Len(text)] = RBracket
    /\ \A i \in 2..(Len(text) - 1) : text[i].tok = "{}"

\* JSON.parse of a well-formed text.
JSONParse(text) == [i \in 1..(Len(text) - 2) |-> text[i + 1].obj]

\* ---------------------------------------------------------------- the disk
\* data/<table>.txt: absent (ENOENT) or a text.
NoFile     == [exists |-> FALSE, text |-> <<>>]
File(text) == [exists |-> TRUE, text |-> text]

\* fs.readFile followed by JSON.parse inside loadData's try: the parsed
\* array, or [] from the catch (missing file, unreadable file, malformed text).
ReadThrows(f)  == ~f.exists \/ ~WellFormed(f.text)
LoadResult(f)  == IF ReadThrows(f) THEN <<>> ELSE JSONParse(f.text)

\* open(path, 'w'): creates or truncates.
Truncate(f) == File(<<>>)

\* write(fd, text) at offset 0 of the descriptor opened by this writeFile:
\* bytes beyond the written ones, put there by another descriptor, stay.
WriteAt0(f, text) ==
    File(text \o SubSeq(f.text, Len(text) + 1, Len(f.text)))

\* ---------------------------------------------------------------- state
VARIABLES
    disk,       \* disk[t]: the file of table t
    open,       \* open[c]: connection c is open
    handler,    \* handler[r]: the run of the 'data' callback for request r
    nextReq,    \* number of statements received so far
    written,    \* responses written to sockets, in order of socket.write
    faults,     \* file-system failures so far
    messageQueue,   \* message queue: the array messageQueue
    processed,      \* message queue: the messages logged by processQueue, in order
    accepted,       \* message queue: the messages answered 200, in order
    posted,         \* message queue: number of POST /enqueue requests so far
    enqueueStatus,  \* message queue: status of the last /enqueue response
    cacheStore,     \* cache store: the object cacheStore, by its own keys
    cacheStatus,    \* cache store: status of the last response
    cacheBody       \* cache store: body of the last response

storeVars == <<disk, open, handler, nextReq, written, faults>>
queueVars == <<messageQueue, processed, accepted, posted, enqueueStatus>>
cacheVars == <<cacheStore, cacheStatus, cacheBody>>

vars == <<disk, open, handler, nextReq, written, faults,
          messageQueue, processed, accepted, posted, enqueueStatus,
          cacheStore, cacheStatus, cacheBody>>

Requests == 1..MaxRequests

\* req.body.message of POST /enqueue: two messages, the empty string, and a
\* body without `message`.
Messages == {"m1", "m2", "", Undefined}

\* !v of JavaScript, for the values above.
Falsy(v) == v = Undefined \/ v = ""

\* The keys of the cache requests; cacheStore is an object literal, so it
\* inherits the members of Object.prototype, toString among them.
CacheKeys == {"a", "b", "toString"}
Inherited == {"toString"}
Absent    == "<absent>"        \* no own property of that name
Function  == "<function>"      \* an inherited method

\* req.body.value of POST /set: JSON texts (one with white space around it),
\* a text that is not JSON, the empty string, and a body without `value`.
CacheValues == {"1", " 1 ", "\"x\"", "hello", "", Undefined}

\* The body of a cache response.
NoBody            == [kind |-> "",      key |-> "",  text |-> ""]
SetBody(key, v)   == [kind |-> "set",   key |-> key, text |-> v]
JsonBody(text)    == [kind |-> "json",  key |-> "",  text |-> text]
NotFoundBody      == [kind |-> "data",  key |-> "",  text |-> "Not Found"]
ErrorBody         == [kind |-> "error", key |-> "",  text |-> "SyntaxError"]

\* ------------------------------------------------------------ statements
\* A received chunk, after data.toString().trim(): the shape the regular
\* expressions of sqlParser look for, with the pieces they capture.  `digits`
\* is the text matched by (\d+); `columns` and `values` are the comma-separated
\* items of the two parenthesised lists.
SelectAllStmt(t)       == [kind |-> "selectAll",   table |-> t, digits |-> <<>>, columns |-> <<>>, values |-> <<>>]
SelectWhereStmt(t, ds) == [kind |-> "selectWhere", table |-> t, digits |-> ds,   columns |-> <<>>, values |-> <<>>]
InsertStmt(t, cs, vs)  == [kind |-> "insert",      table |-> t, digits |-> <<>>, columns |-> cs,   values |-> vs]
OtherStmt              == [kind |-> "other",       table |-> "", digits |-> <<>>, columns |-> <<>>, values |-> <<>>]

WhereDigits == {<<1>>, <<0, 2>>}
InsertLists ==
    { <<<<"name", "description">>, <<"Fireball", "Deals damage">>>>,
      <<<<"id", "name">>, <<"9", "Frost">>>>,
      <<<<"name", "description">>, <<"Fireball">>>> }

\* The statements on the tables of a set: each shape of each grammar, and
\* one text that matches none.
StatementsOn(tables) ==
    {SelectAllStmt(t) : t \in tables}
    \cup {SelectWhereStmt(t, ds) : t \in tables, ds \in WhereDigits}
    \cup {InsertStmt(t, l[1], l[2]) : t \in tables, l \in InsertLists}
    \cup {OtherStmt}

Statements == StatementsOn({"spells"})

\* parseInt of a run of decimal digits.
RECURSIVE parseInt(_)
parseInt(ds) ==
    IF ds = <<>> THEN 0 ELSE 10 * parseInt(SubSeq(ds, 1, Len(ds) - 1)) + ds[Len(ds)]

\* columns.forEach((col, index) => data[col] = values[index]): the last
\* occurrence of a column name wins.
ColumnData(columns, values) ==
    [col \in {columns[i] : i \in DOMAIN columns} |->
        values[CHOOSE i \in DOMAIN columns :
                  /\ columns[i] = col
                  /\ \A j \in DOMAIN columns : columns[j] = col => j <= i]]

NoWhere == [present |-> FALSE, id |-> 0]
Where(id) == [present |-> TRUE, id |-> id]
NoData == [present |-> FALSE, fields |-> <<>>]
SomeData(d) == [present |-> TRUE, fields |-> d]

Throws == [ok |-> FALSE, command |-> "", table |-> "", where |-> NoWhere, data |-> NoData]
Parsed(command, table, where, data) ==
    [ok |-> TRUE, command |-> command, table |-> table, where |-> where, data |-> data]

\* A parser without the count check: columns and values are paired as far
\* as both lists go.
sqlParserNoArity(sql) ==
    CASE sql.kind = "selectAll"   -> Parsed("SELECT", sql.table, NoWhere, NoData)
      [] sql.kind = "selectWhere" -> Parsed("SELECT", sql.table, Where(parseInt(sql.digits)), NoData)
      [] sql.kind = "insert"      ->
            LET n == IF Len(sql.columns) < Len(sql.values) THEN Len(sql.columns) ELSE Len(sql.values)
            IN  Parsed("INSERT", sql.table, NoWhere,
                       SomeData(ColumnData(SubSeq(sql.columns, 1, n), SubSeq(sql.values, 1, n))))
      [] OTHER                    -> Throws

\* function sqlParser(sql): the parsed command, or Throws for `throw new Error`.
sqlParser(sql) ==
    CASE sql.kind = "selectAll"   -> Parsed("SELECT", sql.table, NoWhere, NoData)
      [] sql.kind = "selectWhere" -> Parsed("SELECT", sql.table, Where(parseInt(sql.digits)), NoData)
      [] sql.kind = "insert"      ->
            IF Len(sql.columns) # Len(sql.values)
            THEN Throws
            ELSE Parsed("INSERT", sql.table, NoWhere, SomeData(ColumnData(sql.columns, sql.values)))
      [] OTHER                    -> Throws

\* -------------------------------------------------------------- responses
\* The JSON value written to the socket (followed by "\n").
RowsResponse(data)   == [kind |-> "rows",    rows |-> [i \in 1..Len(data) |-> StringifyObj(data[i])], error |-> ""]
InsertedResponse(nd) == [kind |-> "success", rows |-> <<StringifyObj(nd)>>, error |-> ""]
ErrorResponse(msg)   == [kind |-> "error",   rows |-> <<>>, error |-> msg]

\* A write that never reaches the socket.
SocketWriteDropped(c, r, body) == written

\* socket.write(response): reaches the peer only while the connection is open.
SocketWrite(c, r, body) ==
    IF open[c] THEN Append(written, [conn |-> c, req |-> r, body |-> body]) ELSE written

\* ------------------------------------------------------------ the handler
Idle == [conn |-> "", cmd |-> Throws, pc |-> "idle", data |-> <<>>, newData |-> Data(0, Undefined, Undefined)]
Started(c, cmd) == [Idle EXCEPT !.conn = c, !.cmd = cmd, !.pc = "loadData"]
\* A run that has ended: its locals are gone.
Done(h) == [Idle EXCEPT !.conn = h.conn, !.cmd = h.cmd, !.pc = "done"]

\* data.length > 0 ? Math.max(...data.map(s => s.id)) + 1 : 1
NewId(data) ==
    IF Len(data) > 0
    THEN (CHOOSE m \in {data[i].id : i \in DOMAIN data} :
              \A i \in DOMAIN data : data[i].id <= m) + 1
    ELSE 1

\* Find with a predicate that ignores the id: the first record, if any.
FindAny(data, id) == IF Len(data) > 0 THEN 1 ELSE 0

\* data.find(s => s.id === id): the index of the first match, 0 for undefined.
Find(data, id) ==
    IF \E i \in DOMAIN data : data[i].id = id
    THEN CHOOSE i \in DOMAIN data :
            /\ data[i].id = id
            /\ \A j \in DOMAIN data : data[j].id = id => i <= j
    ELSE 0

TypeOK ==
    /\ nextReq \in 0..MaxRequests
    /\ faults \in 0..MaxFaults
    /\ \A c \in Conns : open[c] \in BOOLEAN
    /\ \A t \in Tables : disk[t].exists \in BOOLEAN
    /\ \A r \in Requests : handler[r].pc \in {"idle", "loadData", "saveOpen", "saveWrite", "done"}

Init ==
    /\ disk = [t \in Tables |-> NoFile]
    /\ open = [c \in Conns |-> TRUE]
    /\ handler = [r \in Requests |-> Idle]
    /\ nextReq = 0
    /\ written = <<>>
    /\ faults = 0
    /\ messageQueue = <<>>
    /\ processed = <<>>
    /\ accepted = <<>>
    /\ posted = 0
    /\ enqueueStatus = 0
    /\ cacheStore = [key \in CacheKeys |-> Absent]
    /\ cacheStatus = 0
    /\ cacheBody = NoBody

\* socket.on('data', async (data) => { ... }) up to the first await: parse
\* and dispatch.  A throw of sqlParser is answered from the catch.
OnData(c, stmt) ==
    /\ open[c]
    /\ nextReq < MaxRequests
    /\ LET r == nextReq + 1
           parsedCommand == sqlParser(stmt)
       IN  /\ nextReq' = r
           /\ IF ~parsedCommand.ok
              THEN /\ written' = SocketWrite(c, r, ErrorResponse("Invalid SQL command"))
                   /\ handler' = [handler EXCEPT ![r] = Done(Started(c, parsedCommand))]
              ELSE IF \/ parsedCommand.command = "SELECT"
                      \/ (parsedCommand.data.present /\ parsedCommand.command = "INSERT")
              THEN /\ handler' = [handler EXCEPT ![r] = Started(c, parsedCommand)]
                   /\ UNCHANGED written
              ELSE /\ written' = SocketWrite(c, r, ErrorResponse("Unsupported command"))
                   /\ handler' = [handler EXCEPT ![r] = Done(Started(c, parsedCommand))]
    /\ UNCHANGED <<disk, open, faults>>
    /\ UNCHANGED <<queueVars, cacheVars>>

\* The file loadData sees: fs.readFile may also reject for a file that is
\* there (EIO, EMFILE, EACCES), which the catch turns into [] as well.
LoadData(f, readFails) == IF readFails THEN <<>> ELSE LoadResult(f)

Fault(fails) ==
    /\ fails => faults < MaxFaults
    /\ faults' = IF fails THEN faults + 1 ELSE faults

\* A SELECT that materialises a missing table as an empty file.
SelectLoadedCreates(r, readFails) ==
    LET h == handler[r] IN
    /\ h.pc = "loadData"
    /\ h.cmd.command = "SELECT"
    /\ Fault(readFails)
    /\ written' = SocketWrite(h.conn, r, RowsResponse(LoadData(disk[h.cmd.table], readFails)))
    /\ handler' = [handler EXCEPT ![r] = Done(h)]
    /\ disk' = [disk EXCEPT ![h.cmd.table] = IF @.exists THEN @ ELSE File(Stringify(<<>>))]
    /\ UNCHANGED <<open, nextReq>>
    /\ UNCHANGED <<queueVars, cacheVars>>

\* SELECT, after `await loadData(parsedCommand.table)`.
SelectLoaded(r, readFails) ==
    LET h == handler[r] IN
    /\ h.pc = "loadData"
    /\ h.cmd.command = "SELECT"
    /\ Fault(readFails)
    /\ LET data == LoadData(disk[h.cmd.table], readFails)
           datum == IF h.cmd.where.present THEN Find(data, h.cmd.where.id) ELSE 0
           body == IF h.cmd.where.present
                   THEN IF datum # 0
                        THEN RowsResponse(<<data[datum]>>)
                        ELSE ErrorResponse("Data not found")
                   ELSE RowsResponse(data)
       IN  /\ written' = SocketWrite(h.conn, r, body)
           /\ handler' = [handler EXCEPT ![r] = Done(h)]
    /\ UNCHANGED <<disk, open, nextReq>>
    /\ UNCHANGED <<queueVars, cacheVars>>

\* An INSERT that takes the id from the statement when it names one.
InsertLoadedClientId(r, readFails) ==
    LET h == handler[r] IN
    /\ h.pc = "loadData"
    /\ h.cmd.command = "INSERT"
    /\ Fault(readFails)
    /\ LET data == LoadData(disk[h.cmd.table], readFails)
           newData == Data(IF "id" \in DOMAIN h.cmd.data.fields THEN 9 ELSE NewId(data),
                           Get(h.cmd.data.fields, "name"),
                           Get(h.cmd.data.fields, "description"))
       IN  handler' = [handler EXCEPT ![r] =
                          [h EXCEPT !.pc = "saveOpen", !.data = Append(data, newData),
                                    !.newData = newData]]
    /\ UNCHANGED <<disk, open, nextReq, written>>
    /\ UNCHANGED <<queueVars, cacheVars>>

\* INSERT, after `await loadData(parsedCommand.table)` up to the call of
\* saveData: the new id, the new record, data.push(newData).
InsertLoaded(r, readFails) ==
    LET h == handler[r] IN
    /\ h.pc = "loadData"
    /\ h.cmd.command = "INSERT"
    /\ Fault(readFails)
    /\ LET data == LoadData(disk[h.cmd.table], readFails)
           newData == Data(NewId(data), Get(h.cmd.data.fields, "name"),
                           Get(h.cmd.data.fields, "description"))
       IN  handler' = [handler EXCEPT ![r] =
                          [h EXCEPT !.pc = "saveOpen", !.data = Append(data, newData),
                                    !.newData = newData]]
    /\ UNCHANGED <<disk, open, nextReq, written>>
    /\ UNCHANGED <<queueVars, cacheVars>>

\* saveData: fs.writeFile opens data/<table>.txt with flag 'w'.  When the
\* open fails the catch of saveData logs, and the handler goes on to answer.
SaveOpen(r, openFails) ==
    LET h == handler[r] IN
    /\ h.pc = "saveOpen"
    /\ Fault(openFails)
    /\ IF openFails
       THEN /\ written' = SocketWrite(h.conn, r, InsertedResponse(h.newData))
            /\ handler' = [handler EXCEPT ![r] = Done(h)]
            /\ UNCHANGED disk
       ELSE /\ disk' = [disk EXCEPT ![h.cmd.table] = Truncate(@)]
            /\ handler' = [handler EXCEPT ![r] = [h EXCEPT !.pc = "saveWrite"]]
            /\ UNCHANGED written
    /\ UNCHANGED <<open, nextReq>>
    /\ UNCHANGED <<queueVars, cacheVars>>

\* saveData: fs.writeFile writes JSON.stringify(data, null, 2); then the
\* handler answers { success: true, newData }, also when the write failed.
SaveWrite(r, writeFails) ==
    LET h == handler[r] IN
    /\ h.pc = "saveWrite"
    /\ Fault(writeFails)
    /\ disk' = IF writeFails
               THEN disk
               ELSE [disk EXCEPT ![h.cmd.table] = WriteAt0(@, Stringify(h.data))]
    /\ written' = SocketWrite(h.conn, r, InsertedResponse(h.newData))
    /\ handler' = [handler EXCEPT ![r] = Done(h)]
    /\ UNCHANGED <<open, nextReq>>
    /\ UNCHANGED <<queueVars, cacheVars>>

\* A teardown that also abandons the runs of the connection where they are.
OnEndAborts(c) ==
    /\ open[c]
    /\ open' = [open EXCEPT ![c] = FALSE]
    /\ handler' = [r \in Requests |->
                      IF handler[r].conn = c /\ handler[r].pc # "idle"
                      THEN Done(handler[r]) ELSE handler[r]]
    /\ UNCHANGED <<disk, nextReq, written, faults>>
    /\ UNCHANGED <<queueVars, cacheVars>>

\* socket 'end' / 'error': the peer is gone.  Runs of the handler that are
\* suspended at an await go on.
OnEnd(c) ==
    /\ open[c]
    /\ open' = [open EXCEPT ![c] = FALSE]
    /\ UNCHANGED <<disk, handler, nextReq, written, faults>>
    /\ UNCHANGED <<queueVars, cacheVars>>

Step(r) ==
    \E fails \in BOOLEAN :
        \/ SelectLoaded(r, fails)
        \/ InsertLoaded(r, fails)
        \/ SaveOpen(r, fails)
        \/ SaveWrite(r, fails)

Next ==
    \/ \E c \in Conns, stmt \in Statements : OnData(c, stmt)
    \/ \E r \in Requests, fails \in BOOLEAN : SelectLoaded(r, fails)
    \/ \E r \in Requests, fails \in BOOLEAN : InsertLoaded(r, fails)
    \/ \E r \in Requests, fails \in BOOLEAN : SaveOpen(r, fails)
    \/ \E r \in Requests, fails \in BOOLEAN : SaveWrite(r, fails)
    \/ \E c \in Conns : OnEnd(c)

Spec == Init /\ [][Next]_vars

\* The same steps, with fewer statements received.
NextLive ==
    \/ \E c \in Conns, stmt \in Statements : nextReq < LiveRequests /\ OnData(c, stmt)
    \/ \E r \in Requests, fails \in BOOLEAN : SelectLoaded(r, fails)
    \/ \E r \in Requests, fails \in BOOLEAN : InsertLoaded(r, fails)
    \/ \E r \in Requests, fails \in BOOLEAN : SaveOpen(r, fails)
    \/ \E r \in Requests, fails \in BOOLEAN : SaveWrite(r, fails)
    \/ \E c \in Conns : OnEnd(c)

\* Node completes every pending file-system operation, one way or the other,
\* and then runs the continuation that waits for it.
FairSpec == Init /\ [][NextLive]_vars /\ \A r \in Requests : WF_vars(Step(r))

\* Clients that only insert one record shape into spells and list it.
SharedStatements ==
    {SelectAllStmt("spells"), InsertStmt("spells", <<"id", "name">>, <<"9", "Frost">>)}

SharedNext ==
    \/ \E c \in Conns, stmt \in SharedStatements : OnData(c, stmt)
    \/ \E r \in Requests, fails \in BOOLEAN : SelectLoaded(r, fails)
    \/ \E r \in Requests, fails \in BOOLEAN : InsertLoaded(r, fails)
    \/ \E r \in Requests, fails \in BOOLEAN : SaveOpen(r, fails)
    \/ \E r \in Requests, fails \in BOOLEAN : SaveWrite(r, fails)
    \/ \E c \in Conns : OnEnd(c)

SharedSpec == Init /\ [][SharedNext]_vars /\ \A r \in Requests : WF_vars(Step(r))

\* ------------------------------------------------------- the message queue
\* A tick that takes the newest message: messageQueue.pop().
ProcessQueuePop ==
    /\ IF Len(messageQueue) > 0
       THEN /\ processed' = Append(processed, messageQueue[Len(messageQueue)])
            /\ messageQueue' = SubSeq(messageQueue, 1, Len(messageQueue) - 1)
       ELSE UNCHANGED <<messageQueue, processed>>
    /\ UNCHANGED <<accepted, posted, enqueueStatus>>
    /\ UNCHANGED <<storeVars, cacheVars>>

\* app.post('/enqueue', ...): 400 when !message, else push and 200.
Enqueue(message) ==
    /\ posted < MaxEnqueues
    /\ posted' = posted + 1
    /\ IF Falsy(message)
       THEN /\ enqueueStatus' = 400
            /\ UNCHANGED <<messageQueue, accepted>>
       ELSE /\ messageQueue' = Append(messageQueue, message)
            /\ accepted' = Append(accepted, message)
            /\ enqueueStatus' = 200
    /\ UNCHANGED processed
    /\ UNCHANGED <<storeVars, cacheVars>>

\* processQueue, called by setInterval: shift the first message and log it,
\* or log that there is none.
ProcessQueue ==
    /\ IF Len(messageQueue) > 0
       THEN /\ processed' = Append(processed, Head(messageQueue))
            /\ messageQueue' = Tail(messageQueue)
       ELSE UNCHANGED <<messageQueue, processed>>
    /\ UNCHANGED <<accepted, posted, enqueueStatus>>
    /\ UNCHANGED <<storeVars, cacheVars>>

QueueNext ==
    \/ \E message \in Messages : Enqueue(message)
    \/ ProcessQueue

\* setInterval(processQueue, 5000) keeps calling processQueue.
QueueSpec == Init /\ [][QueueNext]_vars /\ WF_vars(ProcessQueue)

\* --------------------------------------------------------- the cache store
\* cacheStore[key] of JavaScript: the own property, else the inherited one,
\* else undefined.
Lookup(store, key) ==
    IF store[key] # Absent THEN store[key]
    ELSE IF key \in Inherited THEN Function
    ELSE Undefined

\* JSON.parse(value): the decoded value, or ok = FALSE for a SyntaxError.
JSONParseValue(v) ==
    CASE v = "1"     -> [ok |-> TRUE,  type |-> "number", val |-> "1"]
      [] v = " 1 "   -> [ok |-> TRUE,  type |-> "number", val |-> "1"]
      [] v = "\"x\"" -> [ok |-> TRUE,  type |-> "string", val |-> "x"]
      [] OTHER       -> [ok |-> FALSE, type |-> "",       val |-> ""]

\* res.json(x): the JSON text of a decoded value.
JSONStringifyValue(x) ==
    IF x.type = "string" THEN "\"" \o x.val \o "\"" ELSE x.val

\* app.post('/set', ...)
CacheSet(key, value) ==
    /\ cacheStore' = [cacheStore EXCEPT ![key] = value]
    /\ cacheStatus' = 201
    /\ cacheBody' = SetBody(key, value)
    /\ UNCHANGED <<storeVars, queueVars>>

\* app.get('/get/:key', ...): a throw of JSON.parse reaches the default
\* error handler of express, which answers 500.
CacheGet(key) ==
    /\ LET value == Lookup(cacheStore, key)
       IN  IF ~Falsy(value)
           THEN LET parsedValue == JSONParseValue(value)
                IN  IF parsedValue.ok
                    THEN /\ cacheStatus' = 200
                         /\ cacheBody' = JsonBody(JSONStringifyValue(parsedValue))
                    ELSE /\ cacheStatus' = 500
                         /\ cacheBody' = ErrorBody
           ELSE /\ cacheStatus' = 404
                /\ cacheBody' = NotFoundBody
    /\ UNCHANGED cacheStore
    /\ UNCHANGED <<storeVars, queueVars>>

CacheNext ==
    \/ \E key \in CacheKeys, value \in CacheValues : CacheSet(key, value)
    \/ \E key \in CacheKeys : CacheGet(key)

CacheSpec == Init /\ [][CacheNext]_vars

\* ------------------------------------------------------------ properties
\* What a load of table t would return now.
Durable(t) == LoadResult(disk[t])

IsPrefix(s, t) == Len(s) <= Len(t) /\ SubSeq(t, 1, Len(s)) = s

MaxIdOf(records) ==
    IF records = <<>> THEN 0
    ELSE CHOOSE m \in {records[i].id : i \in DOMAIN records} :
             \A i \in DOMAIN records : records[i].id <= m

InsertOf(r, t) == handler[r].cmd.command = "INSERT" /\ handler[r].cmd.table = t

\* The { success: true, newData } responses for table t, in the order written.
Inserted(t) ==
    LET IsInserted(w) == w.body.kind = "success" /\ InsertOf(w.req, t)
    IN  SelectSeq(written, IsInserted)

\* No file-system failure so far, and no connection has gone.
Undisturbed == faults = 0 /\ \A c \in Conns : open[c]

\* No INSERT into t is between its arrival and its answer.
Quiet(t) == \A r \in Requests : InsertOf(r, t) => handler[r].pc = "done"

\* C1: the ids of the Inserted responses of a table are 1, 2, 3, ... in the
\* order the inserts complete, with no duplicate and no gap, also when the
\* inserts of several connections interleave.
C1_IdsSequential ==
    Undisturbed =>
        \A t \in Tables :
            \A i \in DOMAIN Inserted(t) : Inserted(t)[i].body.rows[1].id = i

\* C2: no insert is lost: once every INSERT into a table has been answered
\* with success, the table holds exactly the acknowledged records, one for
\* each, in the order of the acknowledgements.
C2_NoInsertLost ==
    \A t \in Tables :
        (Undisturbed /\ Quiet(t)) =>
            /\ Len(Durable(t)) = Len(Inserted(t))
            /\ \A i \in DOMAIN Inserted(t) : Durable(t)[i] = Inserted(t)[i].body.rows[1]

\* C3: per-table mutual exclusion: at most one INSERT per table is between
\* its load of the table and the completion of its save.
C3_MutualExclusion ==
    \A t \in Tables :
        Cardinality({r \in Requests :
                        InsertOf(r, t) /\ handler[r].pc \in {"saveOpen", "saveWrite"}}) <= 1

\* C4: save is atomic: while a load of table t is pending, a step changes
\* what the load would return only from the complete sequence before a save
\* to the complete sequence that save writes.
C4_AtomicSave ==
    [][\A t \in Tables :
          (\E l \in Requests : /\ handler[l].pc = "loadData"
                               /\ handler[l].cmd.table = t
                               /\ handler'[l].pc = "loadData")
          => \/ LoadResult(disk'[t]) = LoadResult(disk[t])
             \/ \E r \in Requests : /\ InsertOf(r, t)
                                    /\ handler[r].pc \in {"saveOpen", "saveWrite"}
                                    /\ LoadResult(disk'[t]) = [i \in DOMAIN handler[r].data |->
                                                                  StringifyObj(handler[r].data[i])]]_vars

\* C5: the records of a table have pairwise different ids, and the id of a
\* record is the maximum id of the table + 1 (1 for an empty table) when the
\* record is inserted: an INSERT that is about to write its record carries
\* the id that follows the table's current maximum.
C5_IdIsMaxPlusOne ==
    /\ \A t \in Tables : \A i, j \in DOMAIN Durable(t) :
          Durable(t)[i].id = Durable(t)[j].id => i = j
    /\ \A r \in Requests :
          (handler[r].pc = "saveOpen" /\ Undisturbed)
          => handler[r].newData.id = MaxIdOf(Durable(handler[r].cmd.table)) + 1

\* C6: records are never changed or deleted: whenever a table's file holds a
\* complete record sequence before and after a step, the sequence before is a
\* prefix of the sequence after.
C6_AppendOnly ==
    [][\A t \in Tables :
          (disk[t].exists /\ WellFormed(disk[t].text) /\ WellFormed(disk'[t].text))
          => IsPrefix(JSONParse(disk[t].text), JSONParse(disk'[t].text))]_vars

\* The file is there but JSON.parse rejects its text.
Corrupt(f) == f.exists /\ ~WellFormed(f.text)

\* C7: a command whose load meets a corrupt file is answered with an error,
\* does not go on as if the table were empty, and leaves the file as it is.
C7_CorruptLoadFails ==
    [][\A r \in Requests :
          (/\ handler[r].pc = "loadData"
           /\ handler'[r].pc # "loadData"
           /\ Corrupt(disk[handler[r].cmd.table])
           /\ open[handler[r].conn])
          => /\ handler'[r].pc = "done"
             /\ disk' = disk
             /\ Len(written') = Len(written) + 1
             /\ written'[Len(written')].req = r
             /\ written'[Len(written')].body.kind = "error"]_vars

\* C8: a success response with a new record is sent only if that record is
\* in the table's durable state: an INSERT whose save fails is not answered
\* with success.
C8_SuccessOnlyIfSaved ==
    [][\A i \in (Len(written) + 1)..Len(written') :
          written'[i].body.kind = "success"
          => \E j \in DOMAIN LoadResult(disk'[handler'[written'[i].req].cmd.table]) :
                LoadResult(disk'[handler'[written'[i].req].cmd.table])[j] = written'[i].body.rows[1]]_vars

\* C9: SELECT * FROM t WHERE id = k answers with exactly the record of the
\* loaded table whose id is k when there is one, and with "Data not found"
\* otherwise; the answer never holds more than one record nor a record with
\* another id.  (Steps whose readFile fails belong to C7.)
C9_SelectById ==
    [][\A r \in Requests :
          (/\ handler[r].pc = "loadData"
           /\ handler'[r].pc = "done"
           /\ handler[r].cmd.command = "SELECT"
           /\ handler[r].cmd.where.present
           /\ faults' = faults
           /\ open[handler[r].conn])
          => LET table == LoadResult(disk[handler[r].cmd.table])
                 k == handler[r].cmd.where.id
                 resp == written'[Len(written')]
             IN  /\ Len(written') = Len(written) + 1
                 /\ resp.req = r
                 /\ IF \E i \in DOMAIN table : table[i].id = k
                    THEN /\ resp.body.kind = "rows"
                         /\ Len(resp.body.rows) = 1
                         /\ resp.body.rows[1].id = k
                         /\ \E i \in DOMAIN table : table[i] = resp.body.rows[1]
                    ELSE resp.body = ErrorResponse("Data not found")]_vars

\* A SELECT ... WHERE id = k has been answered with the record it asked for.
C9_Witness ==
    \E i \in DOMAIN written :
        /\ handler[written[i].req].cmd.where.present
        /\ written[i].body.kind = "rows"
        /\ written[i].body.rows[1].id = handler[written[i].req].cmd.where.id

\* Number of responses written for request r.
Responses(r) == Cardinality({i \in DOMAIN written : written[i].req = r})

\* C10: every statement received on a connection that stays open eventually
\* gets exactly one response, whichever path its handling takes; none is
\* dropped and none is answered twice.
C10_ExactlyOneResponse ==
    /\ [](\A r \in Requests : Responses(r) <= 1)
    /\ \A r \in Requests :
          (handler[r].pc # "idle")
          ~> (handler[r].pc # "idle" /\ (Responses(r) = 1 \/ ~open[handler[r].conn]))

\* Every statement of the run has been handled to its end on connections
\* that are still open, an INSERT among them, and each has its one response.
C10_Witness ==
    /\ nextReq = LiveRequests
    /\ \A c \in Conns : open[c]
    /\ \E r \in Requests : handler[r].cmd.command = "INSERT"
    /\ \E r \in Requests : ~handler[r].cmd.ok
    /\ \A r \in 1..LiveRequests : handler[r].pc = "done" /\ Responses(r) = 1

\* Two record sequences with the same records in the same order: the same
\* id, name and description at every position.
SameRecords(a, b) ==
    /\ Len(a) = Len(b)
    /\ \A i \in DOMAIN a :
          /\ a[i].id = b[i].id
          /\ Get(a[i], "name") = Get(b[i], "name")
          /\ Get(a[i], "description") = Get(b[i], "description")

C12_OnlyInsertWrites ==
    [][\A r \in Requests :
          (handler'[r] # handler[r] /\ handler'[r].cmd.command # "INSERT")
          => disk' = disk]_vars

\* A SELECT * and a SELECT ... WHERE of a table that holds a record have
\* been answered, and so has a statement that did not parse.
C12_Witness ==
    /\ \E t \in Tables : Len(Durable(t)) >= 1
    /\ \E r \in Requests : handler[r].pc = "done" /\ handler[r].cmd.command = "SELECT"
    /\ \E r \in Requests : handler[r].pc = "done" /\ ~handler[r].cmd.ok

\* The statement matches none of the three grammars, or is an INSERT whose
\* column list and value list differ in length.
Malformed(stmt) ==
    \/ stmt.kind = "other"
    \/ stmt.kind = "insert" /\ Len(stmt.columns) # Len(stmt.values)

\* C13: a malformed statement is answered with { error: ... } on the
\* connection it came from, inserts no record into any table and leaves the
\* connection open, so that a following statement on it is still handled.
C13_ParseError ==
    [][\A c \in Conns, stmt \in Statements :
          (Malformed(stmt) /\ OnData(c, stmt))
          => /\ written' = Append(written, [conn |-> c, req |-> nextReq',
                                            body |-> ErrorResponse("Invalid SQL command")])
             /\ handler'[nextReq'].pc = "done"
             /\ disk' = disk
             /\ open' = open
             /\ (nextReq' < MaxRequests => \A s2 \in Statements : (ENABLED OnData(c, s2))')]_vars

\* On one connection a statement that did not parse has been answered with
\* an error, and a later INSERT on the same connection with success.
C13_Witness ==
    \E i, j \in DOMAIN written :
        /\ i < j
        /\ written[i].conn = written[j].conn
        /\ written[i].req < written[j].req
        /\ ~handler[written[i].req].cmd.ok
        /\ written[i].body.kind = "error"
        /\ written[j].body.kind = "success"
        /\ \E t \in Tables : \E k \in DOMAIN Durable(t) : Durable(t)[k] = written[j].body.rows[1]

\* C14: the teardown of a connection, at any point of a command, changes no
\* table and stops no run of the handler: the commands in flight, those of
\* the closed connection too, run to their end (nothing is left half
\* written and nothing stays locked), and the other connections still have
\* their statements accepted.
C14_Teardown ==
    /\ [][\A c \in Conns :
             (open[c] /\ ~open'[c])
             => /\ disk' = disk
                /\ handler' = handler
                /\ \A c2 \in Conns \ {c} :
                      /\ open'[c2] = open[c2]
                      /\ (open[c2] /\ nextReq < MaxRequests)
                         => \A stmt \in Statements : (ENABLED OnData(c2, stmt))']_vars
    /\ \A r \in Requests : (handler[r].pc # "idle") ~> (handler[r].pc = "done")

\* A connection went away before its INSERT was answered; the INSERT has
\* run to its end and its record is in the table, and a statement that
\* another connection sent afterwards has been answered.
C14_Witness ==
    \E r, r2 \in Requests :
        /\ handler[r].cmd.command = "INSERT"
        /\ handler[r].pc = "done"
        /\ ~open[handler[r].conn]
        /\ Responses(r) = 0
        /\ Len(Durable(handler[r].cmd.table)) = 1
        /\ r < r2
        /\ handler[r2].pc = "done"
        /\ handler[r2].conn # handler[r].conn
        /\ Responses(r2) = 1

\* C15: the statements of one connection are handled one at a time in the
\* order they arrive: the responses written to a connection are in the order
\* of its requests.
C15_PerConnectionOrder ==
    \A i, j \in DOMAIN written :
        (i < j /\ written[i].conn = written[j].conn) => written[i].req < written[j].req

\* The record an INSERT with these columns is to store: the fields the
\* statement names among name and description, and the id.
Expected(id, fields) ==
    [k \in {"id"} \cup (DOMAIN fields \cap {"name", "description"}) |->
        IF k = "id" THEN id ELSE fields[k]]

\* C16: an INSERT whose column list lacks name or description is not
\* rejected: it is handled like any other INSERT, gets the id that follows
\* the maximum of the table it loaded whatever id column the client sent, is
\* stored without the missing field, and is answered with success.
C16_MissingFields ==
    [][/\ \A c \in Conns, stmt \in Statements :
             (stmt.kind = "insert" /\ Len(stmt.columns) = Len(stmt.values) /\ OnData(c, stmt))
             => /\ handler'[nextReq'].pc = "loadData"
                /\ handler'[nextReq'].cmd.command = "INSERT"
                /\ written' = written
       /\ \A r \in Requests :
             (handler[r].pc = "loadData" /\ handler'[r].pc # "loadData"
              /\ handler[r].cmd.command = "INSERT" /\ faults' = faults)
             => /\ handler'[r].pc = "saveOpen"
                /\ StringifyObj(handler'[r].newData)
                     = Expected(MaxIdOf(LoadResult(disk[handler[r].cmd.table])) + 1,
                                handler[r].cmd.data.fields)
       /\ \A r \in Requests :
             (handler[r].pc \in {"saveOpen", "saveWrite"} /\ handler'[r].pc = "done"
              /\ open[handler[r].conn])
             => /\ written' = Append(written, [conn |-> handler[r].conn, req |-> r,
                                               body |-> InsertedResponse(handler[r].newData)])
                /\ (faults' = faults /\ disk[handler[r].cmd.table] = File(<<>>))
                   => LET stored == LoadResult(disk'[handler[r].cmd.table])
                      IN  /\ Len(stored) >= 1
                          /\ stored[Len(stored)] = StringifyObj(handler[r].newData)]_vars

\* An INSERT with the columns (id, name) and the values (9, Frost) has been
\* answered with success: its record has the id the server assigned, no
\* description, and is in the table.
C16_Witness ==
    \E i \in DOMAIN written :
        LET rec == written[i].body.rows[1] IN
        /\ written[i].body.kind = "success"
        /\ "id" \in DOMAIN handler[written[i].req].cmd.data.fields
        /\ rec.id \in {1, 2}
        /\ rec.name = "Frost"
        /\ "description" \notin DOMAIN rec
        /\ \E t \in Tables : \E k \in DOMAIN Durable(t) : Durable(t)[k] = rec

\* written[i] acknowledges an INSERT.
AckOf(i) ==
    /\ i \in DOMAIN written
    /\ written[i].body.kind = "success"
    /\ handler[written[i].req].cmd.command = "INSERT"

\* C17: tables are shared by all connections: a record whose INSERT into
\* table t was acknowledged on one connection is returned by every
\* SELECT * FROM t that another connection sends after the acknowledgement
\* (statement r arrives after response i is written), in a run without
\* file-system failure or closed connection.
C17_SharedTables ==
    \A r \in 2..MaxRequests, i \in 1..(MaxRequests - 1) :
        [](  (AckOf(i) /\ nextReq < r)
          => [](\A j \in DOMAIN written :
                  (/\ Undisturbed
                   /\ AckOf(i)
                   /\ written[j].req = r
                   /\ written[j].body.kind = "rows"
                   /\ handler[r].cmd.table = handler[written[i].req].cmd.table
                   /\ ~handler[r].cmd.where.present
                   /\ written[j].conn # written[i].conn)
                  => \E k \in DOMAIN written[j].body.rows :
                        written[j].body.rows[k] = written[i].body.rows[1]))

\* C18: the message queue is FIFO and processes each message at most once:
\* the processed messages are at every moment a prefix of the accepted ones
\* and the queue holds the rest; every accepted message is processed while
\* ticks keep occurring; a tick on an empty queue changes nothing; an enqueue
\* request without a message is answered 400 and leaves the queue unchanged.
C18_Fifo ==
    /\ [](accepted = processed \o messageQueue)
    /\ [][(messageQueue = <<>> /\ posted' = posted) => UNCHANGED queueVars]_vars
    /\ [][\A message \in Messages :
             Enqueue(message)
             => IF message = Undefined \/ message = ""
                THEN /\ enqueueStatus' = 400
                     /\ messageQueue' = messageQueue
                     /\ processed' = processed
                ELSE /\ enqueueStatus' = 200
                     /\ messageQueue' = Append(messageQueue, message)
                     /\ processed' = processed]_vars
    /\ \A n \in 1..MaxEnqueues :
          (Len(accepted) >= n) ~> (Len(processed) >= n /\ processed[n] = accepted[n])

\* Two different messages have been processed in their order of arrival
\* after both had waited in the queue, a request without message has been
\* refused, and the queue is empty again.
C18_Witness ==
    /\ Len(processed) >= 2
    /\ processed[1] # processed[2]
    /\ accepted = processed
    /\ messageQueue = <<>>
    /\ posted > Len(accepted)
    /\ enqueueStatus = 400

\* C19: in the cache store, get of key k answers 200 with the value of the
\* most recent set of k, and 404 Not Found when k was never set; a set of
\* key k leaves the value of every other key unchanged, and a get changes
\* no key.
C19_GetReturnsLastSet ==
    [][/\ \A key \in CacheKeys, value \in CacheValues :
             CacheSet(key, value)
             => /\ cacheStore'[key] = value
                /\ \A other \in CacheKeys \ {key} : cacheStore'[other] = cacheStore[other]
       /\ \A key \in CacheKeys :
             CacheGet(key)
             => /\ cacheStore' = cacheStore
                /\ cacheStore[key] = Absent
                   => (cacheStatus' = 404 /\ cacheBody' = NotFoundBody)
                /\ cacheStore[key] \notin {Absent, Undefined}
                   => (cacheStatus' = 200 /\ cacheBody' = JsonBody(cacheStore[key]))]_vars
====
